---- MODULE Spec2Model ----
(***************************************************************************)
(* School bell scheduler (App component + geminiService).                  *)
(*                                                                         *)
(* The React component is modelled as a state machine over its useState    *)
(* cells.  A handler, the re-render it causes and the effects that the     *)
(* re-render re-runs form one atomic step (the interval period is 1000 ms, *)
(* a render takes milliseconds).  What an effect closes over is kept       *)
(* explicitly: the setInterval callback reads the values of the render in  *)
(* which its effect last ran, not the current ones.                        *)
(*                                                                         *)
(* Optional values (null / undefined) are sequences of length 0 or 1.      *)
(* 'HH:mm' strings are the integers HH*100+mm, which order the same way.   *)
(***************************************************************************)
EXTENDS Integers, Sequences, FiniteSets, Bags, TLC

\* ---------------------------------------------------------------- bounds
\* Days the wall clock runs through are 0..MaxDay.
MaxDay == 1
\* The Add form is not offered once the table holds MaxSchedule rows.
MaxSchedule == 3
\* Invocations of triggerBell that can be suspended at the same time.
MaxBells == 2

\* ------------------------------------------------------------- constants
None == <<>>
Some(x) == <<x>>

MinutesPerDay == 24 * 60

\* Minutes of the day at which the model observes the interval callback.
\* Every startTime of the model is one of them, so a tick at any other
\* minute matches no entry and changes nothing but currentTime.
ClockMinutes == {7 * 60, 7 * 60 + 45}

Instants == {d * MinutesPerDay + m : d \in 0..MaxDay, m \in ClockMinutes}

\* format(now, 'HH:mm')
FormatHHmm(now) ==
    LET m == now % MinutesPerDay
    IN  (m \div 60) * 100 + (m % 60)

\* The first two of the five rows of the source; the other three start at
\* minutes of the day the model's clock does not visit.
DEFAULT_SCHEDULE ==
    << [id |-> "1", period |-> 1, startTime |-> 700, endTime |-> 745,
        teacher |-> "Budi Santoso", gender |-> "Bapak",
        subject |-> "Matematika", className |-> "X-A", isActive |-> TRUE],
       [id |-> "2", period |-> 2, startTime |-> 745, endTime |-> 830,
        teacher |-> "Siti Aminah", gender |-> "Ibu",
        subject |-> "Bahasa Indonesia", className |-> "XI-B", isActive |-> TRUE] >>

DefaultSettings ==
    [schoolName |-> "SMP ISLAM ARRAUDHOH", isAutoEnabled |-> TRUE, voiceName |-> "Kore"]

\* -------------------------------------------------------- input universes
\* What the Add/Edit form can submit (period .. className of the form).
FormInputs ==
    { [period |-> 3, startTime |-> 700, endTime |-> 745,
       teacher |-> "Joko Widodo", gender |-> "Bapak",
       subject |-> "Fisika", className |-> "XII-C"],
      [period |-> 3, startTime |-> 830, endTime |-> 915,
       teacher |-> "Siti Aminah", gender |-> "Ibu",
       subject |-> "Bahasa Indonesia", className |-> "XI-B"] }

\* Values Math.random().toString(36).substr(2, 9) can produce.
RandomIds == {"k3f9", "x7q2"}

VoiceNames == {"Kore", "Puck"}
SchoolNames == {"SMP ISLAM ARRAUDHOH", "SMP NEGERI 1"}

\* The schedule an earlier session left in localStorage: the defaults with
\* the first row deleted.
SavedSchedule == << DEFAULT_SCHEDULE[2] >>
\* The settings an earlier session left in localStorage: Auto switched off.
SavedSettings == [DefaultSettings EXCEPT !.isAutoEnabled = FALSE]

\* Rows the remote 'schedules' table can return, ordered by startTime: the
\* defaults after the first row was deactivated and the second was edited to
\* start at 07:00 as well.
RemoteRows ==
    << [DEFAULT_SCHEDULE[1] EXCEPT !.isActive = FALSE],
       [id |-> "2", period |-> 3, startTime |-> 700, endTime |-> 745,
        teacher |-> "Joko Widodo", gender |-> "Bapak",
        subject |-> "Fisika", className |-> "XII-C", isActive |-> TRUE] >>
\* The row of the remote 'settings' table, without its id.
RemoteSettings == [DefaultSettings EXCEPT !.isAutoEnabled = FALSE]

VARIABLES
    currentTime,    \* useState currentTime: the instant of the last clock reading
    schedule,       \* useState schedule
    settings,       \* useState settings
    lastTriggered,  \* useState lastTriggered: None or Some(HHmm)
    isAnnouncing,   \* useState isAnnouncing
    showAddModal,   \* useState showAddModal
    editingItem,    \* useState editingItem: None or Some(entry)
    isLoading,      \* useState isLoading
    supabase,       \* whether the supabase client exists (fixed per run)
    localStorage,   \* the two localStorage slots, each None or Some(value)
    fetchPc,        \* where fetchData is suspended: "schedules", "settings", "done"
    timer,          \* what the setInterval callback closes over
    bells,          \* the suspended triggerBell invocations (a bag of frames)
    firedInMinute,  \* history: sequences started by ticks in the calendar minute
                    \* of currentTime
    returned        \* observation: what the triggerBell invocation did that returned
                    \* in the step just taken (None after any other step)

vars == <<currentTime, schedule, settings, lastTriggered, isAnnouncing,
          showAddModal, editingItem, isLoading, supabase, localStorage,
          fetchPc, timer, bells, firedInMinute, returned>>

\* ------------------------------------------------------------ pure helpers
\* A predicate that has lost the isActive test.
MatchesInactiveToo(item, timeStr) == item.startTime = timeStr

\* item => item.isActive && item.startTime === timeStr
Matches(item, timeStr) == item.isActive /\ item.startTime = timeStr

\* findLast instead of find: the last matching element.
MatchingItemLast(sched, timeStr) ==
    LET Test(item) == item.isActive /\ item.startTime = timeStr
        found == SelectSeq(sched, Test)
    IN  IF found = <<>> THEN None ELSE Some(found[Len(found)])

\* schedule.find(item => item.isActive && item.startTime === timeStr):
\* the first element satisfying the predicate, or undefined.
MatchingItem(sched, timeStr) ==
    LET Test(item) == Matches(item, timeStr)
        found == SelectSeq(sched, Test)
    IN  IF found = <<>> THEN None ELSE Some(found[1])

\* Insert x behind every element that does not sort after it.
RECURSIVE InsertSorted(_, _)
InsertSorted(sorted, x) ==
    IF sorted = <<>> THEN <<x>>
    ELSE IF Head(sorted).startTime <= x.startTime
         THEN <<Head(sorted)>> \o InsertSorted(Tail(sorted), x)
         ELSE <<x>> \o sorted

\* .sort((a, b) => a.startTime.localeCompare(b.startTime)); the sort is stable.
RECURSIVE SortByStartTime(_)
SortByStartTime(seq) ==
    IF seq = <<>> THEN <<>>
    ELSE InsertSorted(SortByStartTime(SubSeq(seq, 1, Len(seq) - 1)), seq[Len(seq)])

\* JSON.stringify / JSON.parse of the two persisted values.
StringifyItem(item) ==
    <<item.id, item.period, item.startTime, item.endTime, item.teacher,
      item.gender, item.subject, item.className, item.isActive>>
ParseItem(t) ==
    [id |-> t[1], period |-> t[2], startTime |-> t[3], endTime |-> t[4],
     teacher |-> t[5], gender |-> t[6], subject |-> t[7], className |-> t[8],
     isActive |-> t[9]]
StringifySchedule(sched) == [i \in 1..Len(sched) |-> StringifyItem(sched[i])]
ParseSchedule(text) == [i \in 1..Len(text) |-> ParseItem(text[i])]
StringifySettings(s) == <<s.schoolName, s.isAutoEnabled, s.voiceName>>
ParseSettings(t) == [schoolName |-> t[1], isAutoEnabled |-> t[2], voiceName |-> t[3]]

\* ------------------------------------------------------------------ effects
\* The closure of the setInterval callback created by the clock effect: the
\* schedule, settings.isAutoEnabled and lastTriggered of that render, and the
\* triggerBell of that render with its isAnnouncing and settings.
Closure(sched, sett, last, ann) ==
    [schedule |-> sched, isAutoEnabled |-> sett.isAutoEnabled,
     lastTriggered |-> last, isAnnouncing |-> ann, voiceName |-> sett.voiceName]

\* The clock effect re-runs only when one of its dependencies changed:
\* [schedule, settings.isAutoEnabled, lastTriggered].  The schedule is compared
\* by reference, so every setSchedule counts (schedSet).
ClockEffect(schedSet, sched, sett, last, ann) ==
    IF schedSet \/ sett.isAutoEnabled # timer.isAutoEnabled \/ last # timer.lastTriggered
    THEN Closure(sched, sett, last, ann)
    ELSE timer

\* Persistence effects that run only when isLoading changes.
PersistenceOnLoadOnly(ls, loadingBefore, loading, schedSet, sched, settSet, sett) ==
    IF loading THEN ls
    ELSE [schedule |-> IF loadingBefore
                       THEN Some(StringifySchedule(sched)) ELSE ls.schedule,
          settings |-> IF loadingBefore
                       THEN Some(StringifySettings(sett)) ELSE ls.settings]

\* The two persistence effects, dependencies [schedule, isLoading] and
\* [settings, isLoading]; schedSet / settSet tell whether the handler set the cell.
PersistenceEffects(ls, loadingBefore, loading, schedSet, sched, settSet, sett) ==
    IF loading THEN ls
    ELSE [schedule |-> IF schedSet \/ loadingBefore
                       THEN Some(StringifySchedule(sched)) ELSE ls.schedule,
          settings |-> IF settSet \/ loadingBefore
                       THEN Some(StringifySettings(sett)) ELSE ls.settings]

\* What localStorage can hold when the page is opened: nothing, or the
\* snapshot an earlier session wrote.
InitialStorage ==
    { [schedule |-> None, settings |-> None],
      [schedule |-> Some(StringifySchedule(SavedSchedule)),
       settings |-> Some(StringifySettings(SavedSettings))] }

\* The effects a re-render runs after a handler, given the new cells.
Effects(schedSet, settSet) ==
    /\ timer' = ClockEffect(schedSet, schedule', settings', lastTriggered', isAnnouncing')
    /\ localStorage' = PersistenceEffects(localStorage, isLoading, isLoading',
                                          schedSet, schedule', settSet, settings')

\* ------------------------------------------------------------ construction
\* The else branch of fetchData, taken without a supabase client:
\* savedSchedule ? JSON.parse(savedSchedule) : DEFAULT_SCHEDULE
LocalSchedule(ls) ==
    IF ls.schedule # None THEN ParseSchedule(ls.schedule[1]) ELSE DEFAULT_SCHEDULE

\* savedSettings ? JSON.parse(savedSettings) : { schoolName: ..., ... }
LocalSettings(ls) ==
    IF ls.settings # None THEN ParseSettings(ls.settings[1]) ELSE DefaultSettings

\* The state once the component is mounted and its effects have run once.
\* Without a supabase client fetchData runs to its end inside the effect.
Mounted(sb, ls) ==
    LET sched == IF sb THEN <<>> ELSE LocalSchedule(ls)
        sett  == IF sb THEN DefaultSettings ELSE LocalSettings(ls)
    IN  /\ supabase = sb
        /\ schedule = sched
        /\ settings = sett
        /\ isLoading = sb
        /\ fetchPc = IF sb THEN "schedules" ELSE "done"
        /\ localStorage = PersistenceEffects(ls, TRUE, sb, TRUE, sched, TRUE, sett)
        /\ timer = Closure(sched, sett, None, FALSE)

Init ==
    /\ currentTime = 7 * 60
    /\ lastTriggered = None
    /\ isAnnouncing = FALSE
    /\ showAddModal = FALSE
    /\ editingItem = None
    /\ bells = EmptyBag
    /\ firedInMinute = 0
    /\ returned = None
    /\ \E sb \in BOOLEAN, ls \in InitialStorage : Mounted(sb, ls)

\* ---------------------------------------------------------------- fetchData
\* catch (error): fall back to localStorage, each slot only if it is set.
FetchFallback ==
    /\ schedule' = IF localStorage.schedule # None
                   THEN ParseSchedule(localStorage.schedule[1]) ELSE schedule
    /\ settings' = IF localStorage.settings # None
                   THEN ParseSettings(localStorage.settings[1]) ELSE settings
    /\ isLoading' = FALSE
    /\ fetchPc' = "done"
    /\ UNCHANGED <<lastTriggered, isAnnouncing>>
    /\ Effects(localStorage.schedule # None, localStorage.settings # None)

\* The select on 'schedules' returns: an error, no rows, or rows.
FetchSchedules(result) ==
    /\ fetchPc = "schedules"
    /\ \/ /\ result = "error"
          /\ FetchFallback
       \/ /\ result \in {"rows", "empty"}
          /\ schedule' = IF result = "rows" THEN RemoteRows ELSE DEFAULT_SCHEDULE
          /\ fetchPc' = "settings"
          /\ UNCHANGED <<settings, isLoading, lastTriggered, isAnnouncing>>
          /\ Effects(TRUE, FALSE)
    /\ returned' = None
    /\ UNCHANGED <<currentTime, showAddModal, editingItem, supabase, bells, firedInMinute>>

\* The select on 'settings' returns: an error, no row (PGRST116), or the row.
FetchSettings(result) ==
    /\ fetchPc = "settings"
    /\ \/ /\ result = "error"
          /\ FetchFallback
       \/ /\ result \in {"row", "norow"}
          /\ settings' = IF result = "row" THEN RemoteSettings ELSE settings
          /\ isLoading' = FALSE
          /\ fetchPc' = "done"
          /\ UNCHANGED <<schedule, lastTriggered, isAnnouncing>>
          /\ Effects(FALSE, result = "row")
    /\ returned' = None
    /\ UNCHANGED <<currentTime, showAddModal, editingItem, supabase, bells, firedInMinute>>

\* -------------------------------------------------------------- triggerBell
GREETING == "Assalamualaikum warahmatullohi wabarokatuh, kepada siswa SMP ISLAM ARRAUDHOH. "

\* The template literal of step 2, as the parts it is put together from.
ComposeText(item) ==
    [greeting |-> GREETING, period |-> item.period, startTime |-> item.startTime,
     gender |-> item.gender, teacher |-> item.teacher, subject |-> item.subject,
     className |-> item.className]

\* A suspended invocation: where it awaits, its item argument, the
\* settings.voiceName of its render, and its text once composed.  The item is
\* read for the last time by step 2 and is dropped from the frame there.
Frame(pc, item, voice, text) == [pc |-> pc, item |-> item, voice |-> voice, text |-> text]
InFlight == BagToSet(bells)
Resume(b, next) == (bells (-) SetToBag({b})) (+) SetToBag({next})

\* if (isAnnouncing) return;   -- the isAnnouncing of the render that created
\* this triggerBell
ReturnsEarly(closureAnnouncing) == closureAnnouncing

\* A triggerBell that calls chime.play() without awaiting the chime promise:
\* it composes at once and its first await is the synthesis request.
TriggerBellNoAwait(closureAnnouncing, item, voice) ==
    IF ReturnsEarly(closureAnnouncing)
    THEN UNCHANGED <<isAnnouncing, bells>>
    ELSE /\ isAnnouncing' = TRUE
         /\ bells' = bells (+) SetToBag({Frame("synth", None, voice,
                                               Some(ComposeText(item)))})

\* triggerBell(item) up to its first await: the guard, setIsAnnouncing(true),
\* new Audio(CHIME_URL) and chime.play().  voice is the settings.voiceName the
\* invocation will read at step 3, from the same render.
TriggerBell(closureAnnouncing, item, voice) ==
    IF ReturnsEarly(closureAnnouncing)
    THEN UNCHANGED <<isAnnouncing, bells>>
    ELSE /\ isAnnouncing' = TRUE
         /\ bells' = bells (+) SetToBag({Frame("chime", Some(item), voice, None)})

\* A triggerBell without its finally block: the invocation returns and
\* isAnnouncing stays as it is.
ExitWithoutFinally(b, audio, played, spoken, heard) ==
    /\ bells' = bells (-) SetToBag({b})
    /\ UNCHANGED isAnnouncing
    /\ returned' = Some([sent |-> b.text, audio |-> audio, played |-> played,
                         spoken |-> spoken, heard |-> heard])

\* finally { setIsAnnouncing(false) }: the invocation b returns.
\* audio: synthesis returned data; played: playAudioFromBase64 resolved;
\* spoken: the texts handed to the fallback; heard: the announcement audio
\* this invocation started that has not ended when it returns.
Exit(b, audio, played, spoken, heard) ==
    /\ bells' = bells (-) SetToBag({b})
    /\ isAnnouncing' = FALSE
    /\ returned' = Some([sent |-> b.text, audio |-> audio, played |-> played,
                         spoken |-> spoken, heard |-> heard])

\* A triggerBell whose catch and else branches only log.
FallbackSilent(b, audio, threw) == Exit(b, audio, FALSE, <<>>, {})

\* new SpeechSynthesisUtterance(text); speechSynthesis.speak(utterance): returns
\* at once, the speech is heard afterwards; threw: the call raised, which the
\* outer catch logs.
Fallback(b, audio, threw) ==
    Exit(b, audio, FALSE, <<b.text[1]>>, IF threw THEN {} ELSE {"speech"})

\* A chime promise that only onended resolves; onerror and the rejection of
\* play() reject it.
ChimeResolvesOnlyEnded(how) == how = "ended"

\* onended, onerror and the rejection of play() all call resolve.
ChimeResolves(how) == how \in {"ended", "error", "rejected"}

\* An invocation that looks its entry up by id in the schedule of the moment
\* it composes, and gives up when the entry is gone.
AnnouncedFromSchedule(b, sched) ==
    LET HasId(item) == item.id = b.item[1].id
        found == SelectSeq(sched, HasId)
    IN  IF found = <<>> THEN None ELSE Some(found[1])

\* The entry step 2 reads: item, the parameter bound when triggerBell was
\* called; the schedule is not read again.
Announced(b, sched) == b.item

\* The chime promise settles; step 2 composes the text and step 3 calls
\* generateAnnouncementAudio(text, settings.voiceName).
ChimeSettled(b, how) ==
    /\ b \in InFlight
    /\ b.pc = "chime"
    /\ IF ChimeResolves(how) /\ Announced(b, schedule) # None
       THEN /\ bells' = Resume(b, Frame("synth", None, b.voice,
                                        Some(ComposeText(Announced(b, schedule)[1]))))
            /\ returned' = None
            /\ UNCHANGED <<isAnnouncing>>
       ELSE \* anything thrown would leave through catch and finally
            Exit(b, FALSE, FALSE, <<>>, {})
    /\ UNCHANGED <<currentTime, schedule, settings, lastTriggered, showAddModal,
                   editingItem, isLoading, supabase, fetchPc, firedInMinute>>
    /\ Effects(FALSE, FALSE)

\* generateAnnouncementAudio returns: undefined (an error it caught, or a
\* response without data) or the base64 data.
SynthReturned(b, audioData, threw) ==
    /\ b \in InFlight
    /\ b.pc = "synth"
    /\ IF audioData # None
       THEN /\ ~threw
            /\ bells' = Resume(b, [b EXCEPT !.pc = "load"])
            /\ returned' = None
            /\ UNCHANGED <<isAnnouncing>>
       ELSE Fallback(b, FALSE, threw)
    /\ UNCHANGED <<currentTime, schedule, settings, lastTriggered, showAddModal,
                   editingItem, isLoading, supabase, fetchPc, firedInMinute>>
    /\ Effects(FALSE, FALSE)

\* playAudioFromBase64: the audio element fires canplaythrough (then
\* audio.play() is called) or error (then the promise is rejected).
AudioLoaded(b, event, threw) ==
    /\ b \in InFlight
    /\ b.pc = "load"
    /\ IF event = "canplaythrough"
       THEN /\ ~threw
            /\ bells' = Resume(b, [b EXCEPT !.pc = "play"])
            /\ returned' = None
            /\ UNCHANGED <<isAnnouncing>>
       ELSE Fallback(b, TRUE, threw)
    /\ UNCHANGED <<currentTime, schedule, settings, lastTriggered, showAddModal,
                   editingItem, isLoading, supabase, fetchPc, firedInMinute>>
    /\ Effects(FALSE, FALSE)

\* What the promise of audio.play() tells: .then(resolve) runs as soon as
\* playback has begun, so the audio is still to be heard when it resolves.
HeardAfterPlayResolved == {"tts"}

\* audio.play() settles: .then(resolve) or .catch(reject).
PlaySettled(b, started, threw) ==
    /\ b \in InFlight
    /\ b.pc = "play"
    /\ IF started
       THEN /\ ~threw
            /\ Exit(b, TRUE, TRUE, <<>>, HeardAfterPlayResolved)
       ELSE Fallback(b, TRUE, threw)
    /\ UNCHANGED <<currentTime, schedule, settings, lastTriggered, showAddModal,
                   editingItem, isLoading, supabase, fetchPc, firedInMinute>>
    /\ Effects(FALSE, FALSE)

\* ------------------------------------------------------ clock and trigger
\* A callback that has lost the lastTriggered test.
ChecksScheduleEveryTick(closure, timeStr) == closure.isAutoEnabled

\* A callback that has lost the isAutoEnabled test.
ChecksScheduleIgnoringAuto(closure, timeStr) == closure.lastTriggered # Some(timeStr)

\* if (settings.isAutoEnabled) ... if (lastTriggered !== timeStr)
ChecksSchedule(closure, timeStr) ==
    closure.isAutoEnabled /\ closure.lastTriggered # Some(timeStr)

\* The setInterval callback, run with the closure of the render in which the
\* clock effect last ran; now is what new Date() returns.
Tick(now) ==
    LET timeStr == FormatHHmm(now)
        matchingItem == MatchingItem(timer.schedule, timeStr)
        fire == ChecksSchedule(timer, timeStr) /\ matchingItem # None
        starts == fire /\ ~ReturnsEarly(timer.isAnnouncing)
    IN  /\ now \in Instants
        /\ now >= currentTime
        /\ ~\E i \in Instants : currentTime < i /\ i < now
        /\ starts => BagCardinality(bells) < MaxBells
        /\ currentTime' = now
        /\ IF fire
           THEN /\ TriggerBell(timer.isAnnouncing, matchingItem[1], timer.voiceName)
                /\ lastTriggered' = Some(timeStr)
           ELSE UNCHANGED <<isAnnouncing, bells, lastTriggered>>
        /\ firedInMinute' = (IF now = currentTime THEN firedInMinute ELSE 0)
                            + (IF starts THEN 1 ELSE 0)
        /\ returned' = None
        /\ UNCHANGED <<schedule, settings, showAddModal, editingItem, isLoading,
                       supabase, fetchPc>>
        /\ Effects(FALSE, FALSE)

\* --------------------------------------------------------------- commands
\* How the remote write of a handler ends: there is no client and it is
\* skipped, it succeeds, it returns an error (which the handler throws), or
\* the call itself throws.
RemoteWrites ==
    IF supabase THEN {"ok", "error", "threw"} ELSE {"skipped"}

\* A handler that undoes its set when the remote write failed.
RolledBack(result, old, new) ==
    IF result \in {"error", "threw"} THEN old ELSE new

\* The value a cell holds once the handler has returned: the set precedes
\* the remote write, and the catch around the write only logs.
Committed(result, old, new) == new

ModalOpen == showAddModal \/ editingItem # None

\* The Test Bell button of row i: triggerBell(item) of the current render.
TestBell(i) ==
    /\ ~ModalOpen
    /\ i \in 1..Len(schedule)
    /\ ~ReturnsEarly(isAnnouncing)
    /\ BagCardinality(bells) < MaxBells
    /\ TriggerBell(isAnnouncing, schedule[i], settings.voiceName)
    /\ returned' = None
    /\ UNCHANGED <<currentTime, schedule, settings, lastTriggered, showAddModal,
                   editingItem, isLoading, supabase, fetchPc, firedInMinute>>
    /\ Effects(FALSE, FALSE)

\* updateSettings(newSettings), called by the Auto button, the school name
\* input and the voice select with { ...settings, <one field> }.
SettingsEdits ==
    {[settings EXCEPT !.isAutoEnabled = ~settings.isAutoEnabled]}
    \cup {[settings EXCEPT !.schoolName = n] : n \in SchoolNames \ {settings.schoolName}}
    \cup {[settings EXCEPT !.voiceName = v] : v \in VoiceNames \ {settings.voiceName}}

\* setSettings(newSettings), then the upsert, awaited last.
UpdateSettings(newSettings) ==
    /\ ~ModalOpen
    /\ \E result \in RemoteWrites : settings' = Committed(result, settings, newSettings)
    /\ returned' = None
    /\ UNCHANGED <<currentTime, schedule, lastTriggered, isAnnouncing, showAddModal,
                   editingItem, isLoading, supabase, fetchPc, bells, firedInMinute>>
    /\ Effects(FALSE, TRUE)

\* The "Tambah Jadwal" button: setShowAddModal(true).
OpenAddModal ==
    /\ ~ModalOpen
    /\ Len(schedule) < MaxSchedule
    /\ showAddModal' = TRUE
    /\ returned' = None
    /\ UNCHANGED <<currentTime, schedule, settings, lastTriggered, isAnnouncing,
                   editingItem, isLoading, supabase, fetchPc, bells, firedInMinute>>
    /\ Effects(FALSE, FALSE)

\* The Edit button of row i: setEditingItem(item).
OpenEditModal(i) ==
    /\ ~ModalOpen
    /\ i \in 1..Len(schedule)
    /\ editingItem' = Some(schedule[i])
    /\ returned' = None
    /\ UNCHANGED <<currentTime, schedule, settings, lastTriggered, isAnnouncing,
                   showAddModal, isLoading, supabase, fetchPc, bells, firedInMinute>>
    /\ Effects(FALSE, FALSE)

\* The close and the cancel button of the modal.
CloseModal ==
    /\ ModalOpen
    /\ showAddModal' = FALSE
    /\ editingItem' = None
    /\ returned' = None
    /\ UNCHANGED <<currentTime, schedule, settings, lastTriggered, isAnnouncing,
                   isLoading, supabase, fetchPc, bells, firedInMinute>>
    /\ Effects(FALSE, FALSE)

\* { ...newItem, id: Math.random()..., isActive: true }
NewItem(data, id) ==
    [id |-> id, period |-> data.period, startTime |-> data.startTime,
     endTime |-> data.endTime, teacher |-> data.teacher, gender |-> data.gender,
     subject |-> data.subject, className |-> data.className, isActive |-> TRUE]

\* { ...editingItem, ...data }
EditedItem(item, data) ==
    [id |-> item.id, period |-> data.period, startTime |-> data.startTime,
     endTime |-> data.endTime, teacher |-> data.teacher, gender |-> data.gender,
     subject |-> data.subject, className |-> data.className,
     isActive |-> item.isActive]

\* The form is submitted with no editingItem: handleAddSchedule(data).
HandleAddSchedule(data, id) ==
    /\ showAddModal
    /\ editingItem = None
    /\ \E result \in RemoteWrites :
          schedule' = Committed(result, schedule,
                                SortByStartTime(Append(schedule, NewItem(data, id))))
    /\ showAddModal' = FALSE
    /\ returned' = None
    /\ UNCHANGED <<currentTime, settings, lastTriggered, isAnnouncing, editingItem,
                   isLoading, supabase, fetchPc, bells, firedInMinute>>
    /\ Effects(TRUE, FALSE)

\* The form is submitted with an editingItem: handleEditSchedule(updatedItem).
HandleEditSchedule(data) ==
    /\ editingItem # None
    /\ LET updatedItem == EditedItem(editingItem[1], data)
           Replace(item) == IF item.id = updatedItem.id THEN updatedItem ELSE item
       IN  \E result \in RemoteWrites :
              schedule' = Committed(result, schedule,
                  SortByStartTime([j \in 1..Len(schedule) |-> Replace(schedule[j])]))
    /\ editingItem' = None
    /\ returned' = None
    /\ UNCHANGED <<currentTime, settings, lastTriggered, isAnnouncing, showAddModal,
                   isLoading, supabase, fetchPc, bells, firedInMinute>>
    /\ Effects(TRUE, FALSE)

\* The Delete button of row i: handleDelete(item.id).
HandleDelete(i) ==
    /\ ~ModalOpen
    /\ i \in 1..Len(schedule)
    /\ LET Keep(item) == item.id # schedule[i].id
       IN  \E result \in RemoteWrites :
              schedule' = Committed(result, schedule, SelectSeq(schedule, Keep))
    /\ returned' = None
    /\ UNCHANGED <<currentTime, settings, lastTriggered, isAnnouncing, showAddModal,
                   editingItem, isLoading, supabase, fetchPc, bells, firedInMinute>>
    /\ Effects(TRUE, FALSE)

\* toggleActive(id) on a schedule: the first entry with the id gives the new
\* flag, every entry with the id is replaced by that updated entry.
Toggled(sched, id) ==
    LET HasId(item) == item.id = id
        itemToToggle == SelectSeq(sched, HasId)[1]
        updatedItem == [itemToToggle EXCEPT !.isActive = ~itemToToggle.isActive]
        Replace(item) == IF item.id = id THEN updatedItem ELSE item
    IN  [j \in 1..Len(sched) |-> Replace(sched[j])]

\* The Activate/Deactivate button of row i: toggleActive(item.id).
ToggleActive(i) ==
    /\ ~ModalOpen
    /\ i \in 1..Len(schedule)
    /\ \E result \in RemoteWrites :
          schedule' = Committed(result, schedule, Toggled(schedule, schedule[i].id))
    /\ returned' = None
    /\ UNCHANGED <<currentTime, settings, lastTriggered, isAnnouncing, showAddModal,
                   editingItem, isLoading, supabase, fetchPc, bells, firedInMinute>>
    /\ Effects(TRUE, FALSE)

\* ------------------------------------------------------------------- view
\* A view whose filter also lets the current minute through.
NextBellFromNow(sched, now) ==
    LET Upcoming(i) == i.isActive /\ i.startTime >= FormatHHmm(now)
        sorted == SortByStartTime(SelectSeq(sched, Upcoming))
    IN  IF sorted = <<>> THEN None ELSE Some(sorted[1])

\* nextBell: schedule.filter(i => i.isActive && i.startTime >
\* format(currentTime, 'HH:mm')).sort(...)[0]
NextBell(sched, now) ==
    LET Upcoming(i) == i.isActive /\ i.startTime > FormatHHmm(now)
        sorted == SortByStartTime(SelectSeq(sched, Upcoming))
    IN  IF sorted = <<>> THEN None ELSE Some(sorted[1])

\* -------------------------------------------------------------------- spec
\* The Auto button: updateSettings({ ...settings, isAutoEnabled: !isAutoEnabled }).
AutoEdit == {[settings EXCEPT !.isAutoEnabled = ~settings.isAutoEnabled]}

\* The trigger engine and the announcement sequencer under every command that
\* reaches them: the clock, the start-up load, Test Bell, the Auto button,
\* Activate/Deactivate and Delete, and the completions of every await of
\* triggerBell.  The form commands and the other two settings edits are the
\* actions above; they change the schedule and settings cells the same way
\* Delete and the Auto button do.
Next ==
    \/ \E r \in {"error", "rows", "empty"} : FetchSchedules(r)
    \/ \E r \in {"error", "row", "norow"} : FetchSettings(r)
    \/ \E now \in Instants : Tick(now)
    \/ \E i \in 1..Len(schedule) : TestBell(i)
    \/ \E new \in AutoEdit : UpdateSettings(new)
    \/ \E i \in 1..Len(schedule) : HandleDelete(i)
    \/ \E i \in 1..Len(schedule) : ToggleActive(i)
    \/ \E b \in InFlight, how \in {"ended", "error", "rejected"} : ChimeSettled(b, how)
    \/ \E b \in InFlight, d \in {None, Some("base64")}, threw \in BOOLEAN :
          SynthReturned(b, d, threw)
    \/ \E b \in InFlight, e \in {"canplaythrough", "error"}, threw \in BOOLEAN :
          AudioLoaded(b, e, threw)
    \/ \E b \in InFlight, started \in BOOLEAN, threw \in BOOLEAN :
          PlaySettled(b, started, threw)

Spec == Init /\ [][Next]_vars

\* The store: the start-up load and every command that writes the schedule or
\* the settings, the Add/Edit form included, with the clock standing still.
StoreNext ==
    \/ \E r \in {"error", "rows", "empty"} : FetchSchedules(r)
    \/ \E r \in {"error", "row", "norow"} : FetchSettings(r)
    \/ \E new \in SettingsEdits : UpdateSettings(new)
    \/ OpenAddModal
    \/ \E i \in 1..Len(schedule) : OpenEditModal(i)
    \/ CloseModal
    \/ \E data \in FormInputs, id \in RandomIds : HandleAddSchedule(data, id)
    \/ \E data \in FormInputs : HandleEditSchedule(data)
    \/ \E i \in 1..Len(schedule) : HandleDelete(i)
    \/ \E i \in 1..Len(schedule) : ToggleActive(i)

StoreSpec == Init /\ [][StoreNext]_vars

\* A page opened without a supabase client.
LocalInit == Init /\ ~supabase

\* The view: the clock and every command that writes the schedule, on a page
\* without a supabase client.  An invocation a tick starts stays suspended at
\* its chime.
ViewNext ==
    \/ \E now \in Instants : Tick(now)
    \/ OpenAddModal
    \/ \E data \in FormInputs, id \in RandomIds : HandleAddSchedule(data, id)
    \/ \E i \in 1..Len(schedule) : OpenEditModal(i)
    \/ \E data \in FormInputs : HandleEditSchedule(data)
    \/ \E i \in 1..Len(schedule) : HandleDelete(i)
    \/ \E i \in 1..Len(schedule) : ToggleActive(i)

ViewSpec == LocalInit /\ [][ViewNext]_vars

\* The clock and the sequences the ticks start while the schedule is
\* edited: Edit, Delete and Activate/Deactivate, on a page without a supabase
\* client.
EditNext ==
    \/ \E now \in Instants : Tick(now)
    \/ \E i \in 1..Len(schedule) : OpenEditModal(i)
    \/ \E data \in FormInputs : HandleEditSchedule(data)
    \/ \E i \in 1..Len(schedule) : HandleDelete(i)
    \/ \E i \in 1..Len(schedule) : ToggleActive(i)
    \/ \E b \in InFlight, how \in {"ended", "error", "rejected"} : ChimeSettled(b, how)
    \/ \E b \in InFlight, d \in {None, Some("base64")}, threw \in BOOLEAN :
          SynthReturned(b, d, threw)
    \/ \E b \in InFlight, e \in {"canplaythrough", "error"}, threw \in BOOLEAN :
          AudioLoaded(b, e, threw)
    \/ \E b \in InFlight, started \in BOOLEAN, threw \in BOOLEAN :
          PlaySettled(b, started, threw)

EditSpec == LocalInit /\ [][EditNext]_vars

\* The clock and the announcement sequencer while the settings are edited:
\* the Auto button, the school name and the voice, on a page without a
\* supabase client.
SettingsNext ==
    \/ \E now \in Instants : Tick(now)
    \/ \E i \in 1..Len(schedule) : TestBell(i)
    \/ \E new \in SettingsEdits : UpdateSettings(new)
    \/ \E b \in InFlight, how \in {"ended", "error", "rejected"} : ChimeSettled(b, how)
    \/ \E b \in InFlight, d \in {None, Some("base64")}, threw \in BOOLEAN :
          SynthReturned(b, d, threw)
    \/ \E b \in InFlight, e \in {"canplaythrough", "error"}, threw \in BOOLEAN :
          AudioLoaded(b, e, threw)
    \/ \E b \in InFlight, started \in BOOLEAN, threw \in BOOLEAN :
          PlaySettled(b, started, threw)

SettingsSpec == LocalInit /\ [][SettingsNext]_vars

\* The trigger engine and the announcement sequencer on a page without a
\* supabase client: the clock, Test Bell, the Auto button, Delete,
\* Activate/Deactivate and the completions of the awaits of triggerBell.
LiveNext ==
    \/ \E now \in Instants : Tick(now)
    \/ \E i \in 1..Len(schedule) : TestBell(i)
    \/ \E new \in AutoEdit : UpdateSettings(new)
    \/ \E i \in 1..Len(schedule) : HandleDelete(i)
    \/ \E i \in 1..Len(schedule) : ToggleActive(i)
    \/ \E b \in InFlight, how \in {"ended", "error", "rejected"} : ChimeSettled(b, how)
    \/ \E b \in InFlight, d \in {None, Some("base64")}, threw \in BOOLEAN :
          SynthReturned(b, d, threw)
    \/ \E b \in InFlight, e \in {"canplaythrough", "error"}, threw \in BOOLEAN :
          AudioLoaded(b, e, threw)
    \/ \E b \in InFlight, started \in BOOLEAN, threw \in BOOLEAN :
          PlaySettled(b, started, threw)

\* The entries triggerBell can be called with under LiveNext: the rows of
\* DEFAULT_SCHEDULE, active or deactivated.
LiveEntries ==
    {[DEFAULT_SCHEDULE[j] EXCEPT !.isActive = a] :
        j \in 1..Len(DEFAULT_SCHEDULE), a \in BOOLEAN}

\* The frames an invocation of triggerBell goes through under LiveNext.
LiveFrames ==
    {Frame("chime", Some(e), DefaultSettings.voiceName, None) : e \in LiveEntries}
    \cup {Frame(pc, None, DefaultSettings.voiceName, Some(ComposeText(e))) :
            pc \in {"synth", "load", "play"}, e \in LiveEntries}

\* What the invocation b awaits signals completion or failure: the chime, the
\* synthesis call, the load of the audio or its playback.
Signals(b) ==
    \/ \E how \in {"ended", "error", "rejected"} : ChimeSettled(b, how)
    \/ \E d \in {None, Some("base64")}, threw \in BOOLEAN : SynthReturned(b, d, threw)
    \/ \E e \in {"canplaythrough", "error"}, threw \in BOOLEAN : AudioLoaded(b, e, threw)
    \/ \E started \in BOOLEAN, threw \in BOOLEAN : PlaySettled(b, started, threw)

\* LiveNext where every external step a suspended invocation awaits
\* eventually signals; the clock and the user may stop at any time.
LiveSpec ==
    LocalInit /\ [][LiveNext]_vars /\ \A b \in LiveFrames : WF_vars(Signals(b))

\* ------------------------------------------------------------------ claims
\* A step starts the invocation whose frame is f.
Started(f) == f.pc = "chime" /\ CopiesIn(f, bells') > CopiesIn(f, bells)
\* The frames a step starts.
StartedFrames == {f \in BagToSet(bells') : Started(f)}
\* entry is the first active entry of sched whose startTime is timeStr.
IsFirstMatch(entry, sched, timeStr) ==
    \E j \in 1..Len(sched) :
        /\ sched[j] = entry
        /\ entry.isActive /\ entry.startTime = timeStr
        /\ \A k \in 1..(j - 1) : ~(sched[k].isActive /\ sched[k].startTime = timeStr)
\* The active entries of the schedule that start in the minute of currentTime.
MatchingNow ==
    {j \in 1..Len(schedule) :
        schedule[j].isActive /\ schedule[j].startTime = FormatHHmm(currentTime)}

\* C1: in any one calendar minute the ticks start at most one announcement
\* sequence, whatever commands and completions come in between.
C1_AtMostOnePerMinute == firedInMinute <= 1

\* C1 witness: a tick started a sequence in the current calendar minute and
\* that sequence has already returned within the same minute.
C1_Witness ==
    /\ firedInMinute = 1
    /\ returned # None
    /\ bells = EmptyBag
    /\ lastTriggered = Some(FormatHHmm(currentTime))

\* C2 (as claimed): at most one announcement sequence is in flight at any time.
C2_AtMostOneInFlight == BagCardinality(bells) <= 1

\* C3 (as claimed): a tick taken when nothing is in flight, Auto is on, the
\* minute differs from lastTriggered and an active entry starts in it, starts
\* the sequence of the first such entry and records the minute.
C3_IdleMatchFires ==
    [][\A now \in Instants :
        ( /\ Tick(now)
          /\ bells = EmptyBag /\ ~isAnnouncing
          /\ settings.isAutoEnabled
          /\ lastTriggered # Some(FormatHHmm(now))
          /\ MatchingItem(schedule, FormatHHmm(now)) # None )
        => /\ lastTriggered' = Some(FormatHHmm(now))
           /\ isAnnouncing'
           /\ \E f \in StartedFrames :
                 IsFirstMatch(f.item[1], schedule, FormatHHmm(now))]_vars

\* C4 (as claimed): isAnnouncing is false when an invocation returns, on every
\* path, and is false before an invocation starts.
C4_FalseBeforeAndAfter ==
    [][ /\ returned' # None => ~isAnnouncing'
        /\ StartedFrames # {} => ~isAnnouncing ]_vars

\* C5 (as claimed): when an invocation returns and clears isAnnouncing, the
\* announcement audio it started has been heard to its end.
C5_NothingHeardAfterReturn == returned # None => returned[1].heard = {}

\* C6: an invocation hands a text to the fallback exactly when synthesis gave
\* no audio or the playback of the audio failed, at most once, never after a
\* playback that succeeded, and the text is the one it sent to synthesis.
C6_FallbackExactlyOnFailure ==
    returned # None =>
        LET r == returned[1]
        IN  /\ Len(r.spoken) <= 1
            /\ (r.spoken # <<>>) <=> (~r.audio \/ ~r.played)
            /\ r.played => r.audio /\ r.spoken = <<>>
            /\ r.spoken # <<>> => r.sent = Some(r.spoken[1])

\* C6 witness: synthesis returned audio, its playback failed, and the
\* invocation returned after handing its text to the fallback.
C6_Witness ==
    /\ returned # None
    /\ returned[1].audio /\ ~returned[1].played
    /\ returned[1].spoken = <<returned[1].sent[1]>>

\* C7: when the chime errors or play() is rejected, the invocation goes on:
\* it composes the text of its item and awaits the synthesis request.
C7_ChimeFailureContinues ==
    [][\A b \in InFlight : \A how \in {"error", "rejected"} :
        ChimeSettled(b, how) =>
            /\ returned' = None
            /\ BagCardinality(bells') = BagCardinality(bells)
            /\ CopiesIn(Frame("synth", None, b.voice, Some(ComposeText(b.item[1]))), bells')
                 > CopiesIn(Frame("synth", None, b.voice, Some(ComposeText(b.item[1]))), bells)]_vars

\* C7 witness: an invocation past its chime, which ChimeSettled(b, "error")
\* and ChimeSettled(b, "rejected") lead to, awaiting synthesis with its text.
C7_Witness ==
    \E b \in InFlight : b.pc = "synth" /\ b.text # None /\ isAnnouncing

\* C8: with Auto off a tick starts nothing and leaves lastTriggered alone,
\* whatever matches; Test Bell starts the sequence of the row it is clicked on.
C8_AutoOffOnlyManual ==
    [][ /\ \A now \in Instants :
            Tick(now) /\ ~settings.isAutoEnabled =>
                UNCHANGED <<bells, isAnnouncing, lastTriggered>>
        /\ \A i \in 1..Len(schedule) :
            TestBell(i) /\ ~settings.isAutoEnabled =>
                /\ isAnnouncing'
                /\ UNCHANGED lastTriggered
                /\ StartedFrames =
                     {Frame("chime", Some(schedule[i]), settings.voiceName, None)} ]_vars

\* C8 witness: Auto is off, an active entry starts in the current minute, no
\* tick has ever triggered, and a Test Bell sequence has reached playback.
C8_Witness ==
    /\ ~settings.isAutoEnabled
    /\ MatchingNow # {}
    /\ lastTriggered = None
    /\ \E b \in InFlight : b.pc = "play"

\* C9: deactivating an entry changes only its isActive flag and keeps it in
\* the collection, and a tick starts a sequence only for an entry that is
\* active in the schedule at that tick.
C9_InactiveNeverTriggered ==
    [][ /\ \A i \in 1..Len(schedule) :
            ToggleActive(i) =>
                /\ Len(schedule') = Len(schedule)
                /\ \A j \in 1..Len(schedule) :
                      schedule'[j] =
                        IF schedule[j].id = schedule[i].id
                        THEN [schedule[j] EXCEPT !.isActive = ~schedule[i].isActive]
                        ELSE schedule[j]
        /\ \A now \in Instants :
            Tick(now) =>
                \A f \in StartedFrames :
                    \E j \in 1..Len(schedule) :
                        /\ schedule[j] = f.item[1]
                        /\ schedule[j].isActive
                        /\ schedule[j].startTime = FormatHHmm(now) ]_vars

\* C9 witness: the load is over, Auto is on, the clock has ticked into a
\* minute in which only a deactivated entry starts, and nothing was triggered.
C9_Witness ==
    /\ fetchPc = "done"
    /\ settings.isAutoEnabled
    /\ currentTime > 7 * 60
    /\ MatchingNow = {}
    /\ \E j \in 1..Len(schedule) :
          ~schedule[j].isActive /\ schedule[j].startTime = FormatHHmm(currentTime)
    /\ lastTriggered # Some(FormatHHmm(currentTime))
    /\ bells = EmptyBag

\* C10: a sequence a tick starts is for the first active entry of the sorted
\* schedule that starts in that minute, and it is the only sequence the ticks
\* of that calendar minute start.
C10_OnlyFirstOfTies ==
    [][\A now \in Instants :
        Tick(now) =>
            \A f \in StartedFrames :
                /\ IsFirstMatch(f.item[1], schedule, FormatHHmm(now))
                /\ firedInMinute' = 1 ]_vars

\* C10 witness: two active entries start in the current minute, a tick has
\* started one sequence in this minute and that sequence has returned.
C10_Witness ==
    /\ Cardinality(MatchingNow) >= 2
    /\ firedInMinute = 1
    /\ returned # None
    /\ bells = EmptyBag

\* C11: an invocation composes its text from the entry it was called with,
\* whatever Edit, Delete or Activate/Deactivate did to the schedule since, and
\* those commands neither remove nor restart a suspended invocation; the entry
\* a tick calls it with is an entry of the schedule at that tick.
C11_InFlightKeepsItsEntry ==
    [][ /\ \A b \in InFlight : \A how \in {"ended", "error", "rejected"} :
            ChimeSettled(b, how) =>
                /\ returned' = None
                /\ BagCardinality(bells') = BagCardinality(bells)
                /\ CopiesIn(Frame("synth", None, b.voice, Some(ComposeText(b.item[1]))), bells')
                     > CopiesIn(Frame("synth", None, b.voice, Some(ComposeText(b.item[1]))), bells)
        /\ ( \/ \E i \in 1..Len(schedule) : HandleDelete(i) \/ ToggleActive(i)
             \/ \E data \in FormInputs : HandleEditSchedule(data) )
           => UNCHANGED <<bells, isAnnouncing>>
        /\ \A now \in Instants :
            Tick(now) =>
                \A f \in StartedFrames : \E j \in 1..Len(schedule) : schedule[j] = f.item[1] ]_vars

\* C11 witness: an invocation is suspended at its chime, has not composed yet,
\* and the entry it was called with is in the schedule under the same id with
\* other field values: it was edited after the invocation started.
C11_Witness ==
    \E b \in InFlight :
        /\ b.pc = "chime"
        /\ \E j \in 1..Len(schedule) :
              /\ schedule[j].id = b.item[1].id
              /\ ComposeText(schedule[j]) # ComposeText(b.item[1])

\* The active entries of the schedule that start after the minute of currentTime.
LaterActive ==
    {j \in 1..Len(schedule) :
        schedule[j].isActive /\ schedule[j].startTime > FormatHHmm(currentTime)}

\* C12: the next-bell view is none exactly when no active entry starts after
\* the current minute; otherwise it is an active entry of the schedule that
\* starts after the current minute, and no active entry that starts after the
\* current minute starts earlier than it.
C12_NextBellIsEarliestLater ==
    LET next == NextBell(schedule, currentTime)
    IN  /\ (next = None) <=> (LaterActive = {})
        /\ next # None =>
              /\ \E j \in LaterActive : schedule[j] = next[1]
              /\ \A j \in LaterActive : next[1].startTime <= schedule[j].startTime

\* C12 witness: an active entry starts in the current minute, an inactive entry
\* starts after it, and the view is an active entry that starts later still.
C12_Witness ==
    /\ MatchingNow # {}
    /\ NextBell(schedule, currentTime) # None
    /\ \E j \in 1..Len(schedule) :
          /\ ~schedule[j].isActive
          /\ schedule[j].startTime > FormatHHmm(currentTime)
          /\ schedule[j].startTime < NextBell(schedule, currentTime)[1].startTime

\* C13: once the start-up load is over, the two localStorage slots hold the
\* current schedule and settings, so a page opened without a supabase client
\* on this localStorage starts with the same schedule (entries, field values,
\* flags, order) and the same settings.
C13_SnapshotMirrorsMemory ==
    ~isLoading =>
        /\ localStorage.schedule = Some(StringifySchedule(schedule))
        /\ localStorage.settings = Some(StringifySettings(settings))
        /\ LocalSchedule(localStorage) = schedule
        /\ LocalSettings(localStorage) = settings

\* C13 witness: the load from the remote store is over and, since then, an
\* entry was added, an entry was deactivated and the voice and the school name
\* were changed.
C13_Witness ==
    /\ supabase /\ ~isLoading /\ ~ModalOpen
    /\ Len(schedule) = 3
    /\ \E j \in 1..Len(schedule) : schedule[j].id \in RandomIds
    /\ \E j \in 1..Len(schedule) : ~schedule[j].isActive
    /\ settings.voiceName = "Puck"
    /\ settings.schoolName = "SMP NEGERI 1"

\* The ids of a schedule are pairwise distinct.
IdsDistinct(sched) ==
    \A j, k \in 1..Len(sched) : j # k => sched[j].id # sched[k].id

\* The schedule is ascending by startTime.
IsSorted(sched) ==
    \A j, k \in 1..Len(sched) : j < k => sched[j].startTime <= sched[k].startTime

\* C15 (as claimed): Add stores exactly one new entry, with the fields of the
\* form and isActive = TRUE, under an id no entry of the collection has, and no
\* command makes two entries share an id.
C15_AddStoresFreshEntry ==
    [][ /\ \A data \in FormInputs, id \in RandomIds :
            HandleAddSchedule(data, id) =>
                /\ Len(schedule') = Len(schedule) + 1
                /\ \E k \in 1..Len(schedule') :
                      /\ schedule'[k] = NewItem(data, id)
                      /\ schedule = SubSeq(schedule', 1, k - 1)
                                       \o SubSeq(schedule', k + 1, Len(schedule'))
                /\ \A j \in 1..Len(schedule) : schedule[j].id # id
        /\ IdsDistinct(schedule) => IdsDistinct(schedule') ]_vars

\* x occurs exactly once in sched.
OccursOnce(sched, x) == Cardinality({j \in 1..Len(sched) : sched[j] = x}) = 1
\* The position of an entry that occurs once.
PositionOf(sched, x) == CHOOSE j \in 1..Len(sched) : sched[j] = x

\* A step keeps the relative order of the entries it leaves as they are and
\* that start in the same minute.
KeepsOrderOfTies ==
    \A j, k \in 1..Len(schedule) :
        ( /\ j < k
          /\ schedule[j].startTime = schedule[k].startTime
          /\ OccursOnce(schedule, schedule[j]) /\ OccursOnce(schedule, schedule[k])
          /\ OccursOnce(schedule', schedule[j]) /\ OccursOnce(schedule', schedule[k]) )
        => PositionOf(schedule', schedule[j]) < PositionOf(schedule', schedule[k])

\* C14 (as claimed): once the load is over, every step leaves the schedule
\* ascending by startTime and keeps entries that start in the same minute in
\* their previous relative order.
C14_StaysSorted ==
    [][ ~isLoading => IsSorted(schedule') /\ KeepsOrderOfTies ]_vars

\* C16 (as claimed): when the read of the remote schedule errors or returns
\* no rows, the schedule becomes the local snapshot, or the defaults when
\* there is no snapshot, and the load does not end with an empty schedule.
C16_LoadFallsBackToSnapshot ==
    [][ /\ \A r \in {"error", "empty"} :
            FetchSchedules(r) => schedule' = LocalSchedule(localStorage)
        /\ \A r \in {"error", "rows", "empty"} :
            FetchSchedules(r) /\ ~isLoading' => schedule' # <<>> ]_vars

\* The two localStorage slots hold the schedule and the settings the step
\* leaves, or the load is still running.
MirroredAfter ==
    ~isLoading' =>
        localStorage' = [schedule |-> Some(StringifySchedule(schedule')),
                         settings |-> Some(StringifySettings(settings'))]

\* C17: on a page with a remote store, every command leaves the mutated value
\* in memory and in localStorage however its remote write ends (done, error
\* returned, exception): Add, Edit, Delete, Activate/Deactivate and the three
\* settings edits.
C17_RemoteFailureIgnored ==
    [][ supabase =>
        /\ \A data \in FormInputs, id \in RandomIds :
              HandleAddSchedule(data, id) =>
                  /\ schedule' = SortByStartTime(Append(schedule, NewItem(data, id)))
                  /\ UNCHANGED settings /\ MirroredAfter
        /\ \A data \in FormInputs :
              HandleEditSchedule(data) =>
                  /\ Len(schedule') = Len(schedule)
                  /\ \A j \in 1..Len(schedule) :
                        schedule[j].id = editingItem[1].id =>
                            \E k \in 1..Len(schedule') :
                                schedule'[k] = EditedItem(editingItem[1], data)
                  /\ UNCHANGED settings /\ MirroredAfter
        /\ \A i \in 1..Len(schedule) :
              HandleDelete(i) =>
                  /\ \A j \in 1..Len(schedule') : schedule'[j].id # schedule[i].id
                  /\ Len(schedule') < Len(schedule)
                  /\ UNCHANGED settings /\ MirroredAfter
        /\ \A i \in 1..Len(schedule) :
              ToggleActive(i) =>
                  /\ schedule' = Toggled(schedule, schedule[i].id)
                  /\ UNCHANGED settings /\ MirroredAfter
        /\ \A new \in SettingsEdits :
              UpdateSettings(new) =>
                  /\ settings' = new
                  /\ UNCHANGED schedule /\ MirroredAfter ]_vars

\* C17 witness: on a page with a remote store the load is over, the schedule
\* holds an entry Add stored, and the school name was edited; localStorage
\* holds both.
C17_Witness ==
    /\ supabase /\ ~isLoading /\ ~ModalOpen
    /\ \E j \in 1..Len(schedule) : schedule[j].id \in RandomIds
    /\ settings.schoolName = "SMP NEGERI 1"
    /\ localStorage = [schedule |-> Some(StringifySchedule(schedule)),
                       settings |-> Some(StringifySettings(settings))]

\* The greeting that names a school.
GreetingFor(schoolName) ==
    "Assalamualaikum warahmatullohi wabarokatuh, kepada siswa " \o schoolName \o ". "

\* C18 (as claimed): the text an invocation composes greets the school held in
\* settings.schoolName and carries the period, startTime, gender, teacher,
\* subject and className of its entry as stored.
C18_TextFromEntryAndSettings ==
    [][\A b \in InFlight : \A how \in {"ended", "error", "rejected"} :
        ChimeSettled(b, how) =>
            \E f \in BagToSet(bells') :
                /\ f.pc = "synth"
                /\ f.text = Some([greeting |-> GreetingFor(settings.schoolName),
                                  period |-> b.item[1].period,
                                  startTime |-> b.item[1].startTime,
                                  gender |-> b.item[1].gender,
                                  teacher |-> b.item[1].teacher,
                                  subject |-> b.item[1].subject,
                                  className |-> b.item[1].className])]_vars

\* C19 (as claimed): an invocation started by a tick or by Test Bell carries
\* the settings.voiceName of the moment it is started, and hands that voice on
\* to the synthesis request.
C19_VoiceOfTheMoment ==
    [][ /\ \A now \in Instants :
            Tick(now) => \A f \in StartedFrames : f.voice = settings.voiceName
        /\ \A i \in 1..Len(schedule) :
            TestBell(i) => \A f \in StartedFrames : f.voice = settings.voiceName
        /\ \A b \in InFlight : \A how \in {"ended", "error", "rejected"} :
            ChimeSettled(b, how) =>
                \E f \in BagToSet(bells') : f.pc = "synth" /\ f.voice = b.voice ]_vars

\* C20 (as claimed): a tick that matches while an invocation is in flight
\* records the minute and starts nothing, and a tick in the minute that
\* lastTriggered records starts nothing.
C20_MatchInFlightDropped ==
    [][\A now \in Instants :
        Tick(now) =>
            /\ ( /\ bells # EmptyBag
                 /\ settings.isAutoEnabled
                 /\ lastTriggered # Some(FormatHHmm(now))
                 /\ MatchingItem(schedule, FormatHHmm(now)) # None )
               => lastTriggered' = Some(FormatHHmm(now)) /\ StartedFrames = {}
            /\ lastTriggered = Some(FormatHHmm(now)) => StartedFrames = {} ]_vars

\* A step adds a copy of the frame f to the suspended invocations.
Gains(f) == CopiesIn(f, bells') > CopiesIn(f, bells)
\* A step takes a copy of the frame b from the suspended invocations.
Loses(b) == CopiesIn(b, bells') < CopiesIn(b, bells)

\* C21: an invocation awaits its chime before anything else and has no text
\* until the chime promise has settled; the synthesis request is issued only by
\* the step in which the chime ends, errors or is rejected, with the text
\* composed in that step; the audio is loaded only after synthesis returned
\* data and played only after it loaded; and an invocation that returns having
\* played audio or handed a text to the fallback had sent that text to
\* synthesis, so it was past its chime.
C21_ChimeThenTextThenSynthesis ==
    [][ /\ \A f \in BagToSet(bells') :
            /\ f.pc = "chime" => f.text = None /\ f.item # None
            /\ f.pc \in {"synth", "load", "play"} => f.text # None
            /\ Gains(f) /\ f.pc = "synth" =>
                  \E b \in InFlight, how \in {"ended", "error", "rejected"} :
                      /\ b.pc = "chime" /\ Loses(b)
                      /\ ChimeSettled(b, how)
                      /\ f.text = Some(ComposeText(b.item[1]))
            /\ Gains(f) /\ f.pc = "load" =>
                  \E b \in InFlight :
                      /\ b.pc = "synth" /\ Loses(b) /\ f.text = b.text
                      /\ SynthReturned(b, Some("base64"), FALSE)
            /\ Gains(f) /\ f.pc = "play" =>
                  \E b \in InFlight :
                      /\ b.pc = "load" /\ Loses(b) /\ f.text = b.text
                      /\ AudioLoaded(b, "canplaythrough", FALSE)
        /\ returned' # None =>
              \E b \in InFlight :
                  /\ Loses(b)
                  /\ returned'[1].sent = b.text
                  /\ ( \/ returned'[1].played \/ returned'[1].audio
                       \/ returned'[1].spoken # <<>> \/ returned'[1].heard # {} )
                     => b.pc \in {"synth", "load", "play"} /\ b.text # None
                  /\ returned'[1].played => b.pc = "play"
                  /\ returned'[1].audio => b.pc \in {"load", "play"} ]_vars

\* C21 witness: an invocation went through all four steps and returned after
\* its synthesized audio started playing, while another one, started later,
\* still awaits its chime with no text.
C21_Witness ==
    /\ returned # None
    /\ returned[1].played /\ returned[1].sent # None
    /\ \E b \in InFlight : b.pc = "chime" /\ b.text = None

\* A step of an announcement sequence: a start by Test Bell or by a tick, or
\* the completion of one of its awaits.
SequenceStep ==
    \/ \E i \in 1..Len(schedule) : TestBell(i)
    \/ \E now \in Instants : Tick(now)
    \/ \E b \in InFlight, how \in {"ended", "error", "rejected"} : ChimeSettled(b, how)
    \/ \E b \in InFlight, d \in {None, Some("base64")}, threw \in BOOLEAN :
          SynthReturned(b, d, threw)
    \/ \E b \in InFlight, e \in {"canplaythrough", "error"}, threw \in BOOLEAN :
          AudioLoaded(b, e, threw)
    \/ \E b \in InFlight, started \in BOOLEAN, threw \in BOOLEAN :
          PlaySettled(b, started, threw)

\* C22 (as claimed): every step of an announcement sequence leaves the
\* schedule, the settings and their localStorage slots as they are; Test Bell
\* leaves lastTriggered as it is; and as long as no tick has triggered, so that
\* every sequence so far was a manual test, a tick that finds nothing in
\* flight, Auto on and an active entry starting in its minute starts the
\* sequence of that entry.
C22_SequenceLeavesDataAlone ==
    [][ /\ SequenceStep => UNCHANGED <<schedule, settings, localStorage>>
        /\ \A i \in 1..Len(schedule) : TestBell(i) => UNCHANGED lastTriggered
        /\ \A now \in Instants :
            ( /\ Tick(now)
              /\ lastTriggered = None
              /\ bells = EmptyBag /\ ~isAnnouncing
              /\ settings.isAutoEnabled
              /\ MatchingItem(schedule, FormatHHmm(now)) # None )
            => \E f \in StartedFrames :
                  IsFirstMatch(f.item[1], schedule, FormatHHmm(now)) ]_vars

\* sched without its k-th entry.
Without(sched, k) == SubSeq(sched, 1, k - 1) \o SubSeq(sched, k + 1, Len(sched))

\* The rows of the schedule that have the id of the entry being edited.
EditTargets == {j \in 1..Len(schedule) : schedule[j].id = editingItem[1].id}

\* C23 (as claimed): Delete removes the row it is clicked on and nothing else;
\* Activate/Deactivate flips the flag of the row it is clicked on and nothing
\* else; Edit replaces one entry, the one with the id of the edited entry, by
\* an entry with the form's fields and that entry's id and isActive, and the
\* other entries keep their values and their order; Edit of an id no entry has
\* leaves the schedule as it is.
C23_OnlyTheTargetChanges ==
    [][ /\ \A i \in 1..Len(schedule) :
            HandleDelete(i) => schedule' = Without(schedule, i)
        /\ \A i \in 1..Len(schedule) :
            ToggleActive(i) =>
                schedule' = [schedule EXCEPT ![i].isActive = ~schedule[i].isActive]
        /\ \A data \in FormInputs :
            HandleEditSchedule(data) =>
                IF EditTargets = {}
                THEN schedule' = schedule
                ELSE \E j \in EditTargets, k \in 1..Len(schedule') :
                        /\ schedule'[k] = EditedItem(schedule[j], data)
                        /\ Without(schedule', k) = Without(schedule, j) ]_vars

\* C24: when every external step eventually signals completion or failure,
\* isAnnouncing never stays true: whenever it is true it becomes false again;
\* and once no further sequence is started, every sequence that was started
\* returns, after which nothing is in flight and isAnnouncing stays false.
\* Every suspended invocation is one the fairness condition covers.
C24_SequencesComplete ==
    /\ [](InFlight \subseteq LiveFrames)
    /\ isAnnouncing ~> ~isAnnouncing
    /\ <>[][StartedFrames = {}]_vars => <>[](bells = EmptyBag /\ ~isAnnouncing)

\* C24 witness: a tick started a sequence, every await of it signalled, the
\* synthesized audio started playing and the invocation returned; nothing is
\* in flight and isAnnouncing is false.
C24_Witness ==
    /\ returned # None /\ returned[1].played
    /\ lastTriggered # None
    /\ bells = EmptyBag /\ ~isAnnouncing

\* The calendar day of an instant.
DayOf(now) == now \div MinutesPerDay

\* C25 (as claimed): the first tick of a minute on a later day than the last
\* clock reading, with Auto on, nothing in flight and an active entry starting
\* in that minute, starts the sequence of that entry although lastTriggered
\* still holds the same HH:mm from an earlier day.
C25_GuardIsPerCalendarMinute ==
    [][\A now \in Instants :
        ( /\ Tick(now)
          /\ DayOf(now) > DayOf(currentTime)
          /\ lastTriggered = Some(FormatHHmm(now))
          /\ settings.isAutoEnabled
          /\ bells = EmptyBag /\ ~isAnnouncing
          /\ MatchingItem(schedule, FormatHHmm(now)) # None )
        => \E f \in StartedFrames :
              IsFirstMatch(f.item[1], schedule, FormatHHmm(now)) ]_vars

\* A step of the start-up load: one of its two reads returns.
LoadStep ==
    \/ \E r \in {"error", "rows", "empty"} : FetchSchedules(r)
    \/ \E r \in {"error", "row", "norow"} : FetchSettings(r)

\* C26 (as claimed): a step of the start-up load keeps every entry the user
\* added while it was running (the entries with an id Add made) and keeps the
\* settings the user changed while it was running (settings other than the
\* initial ones), and no step that leaves the load running writes localStorage.
C26_MutationsSurviveTheLoad ==
    [][ /\ LoadStep =>
              /\ \A j \in 1..Len(schedule) :
                    schedule[j].id \in RandomIds =>
                        \E k \in 1..Len(schedule') : schedule'[k] = schedule[j]
              /\ settings # DefaultSettings => settings' = settings
        /\ isLoading' => UNCHANGED localStorage ]_vars

====
